---- MODULE Spec2Model ----
(***************************************************************************)
(* netimpair: translation of flow selectors into tc u32 match fragments,   *)
(* and the command lifecycle of one run (provisioning, toggle loop,        *)
(* teardown, signals), for the three implementations of the repository:    *)
(*   "netimpair"   src/netimpair.py            (NetemInstance, script)     *)
(*   "netimpair2"  src/netimpair2.py           (NetemInstance, assert)     *)
(*   "package"     src/netimpair/__init__.py   (Netem, context managers)   *)
(*                                                                         *)
(* A Python string that the code splits or searches is modelled as the     *)
(* sequence of its pieces: the separator characters "," "=" ":" are pieces *)
(* of their own, and every other piece is a run of characters holding no   *)
(* separator.  A string the code only builds or compares is a TLA+ string. *)
(*                                                                         *)
(* Where an operator is written CHOOSE r \in { e : x \in {a} } : TRUE, it   *)
(* is e with x standing for the value of a: x is evaluated once, however   *)
(* often e uses it.                                                        *)
(***************************************************************************)
EXTENDS Integers, Sequences, FiniteSets, TLC

VARIABLES
    \* ---- _generate_filters, run on its own ----
    filter_list,          \* the argument: a list of selector strings
    tcfilter_idx,         \* position of the `for tcfilter in filter_list` loop
    filter_strings,       \* the IPv4 output list
    filter_strings_ipv6,  \* the IPv6 output list
    raised,               \* the selectors (by position) whose except branch ran
    fpc,                  \* "loop" or "returned"
    \* ---- one run of main() ----
    variant,              \* which implementation runs
    euid,                 \* os.geteuid()
    args,                 \* the parsed command line
    self,                 \* the attributes assigned on the netem instance
    toggle,               \* args.toggle, consumed by pop(0)
    pc,                   \* where main() stands
    idx,                  \* next command of initialize() or teardown()
    td_site,              \* the call site of the running teardown()
    handlers,             \* the signals for which signal_action is installed
    signals,              \* signals delivered so far
    last_ok,              \* whether the last command run exited with status 0
    trace,                \* what the run did: commands, sleeps, calls, signals
    exit_status,          \* the process's exit status once pc = "exited"
    \* ---- the class called directly, over a kernel ----
    kernel,               \* the devices up, the qdiscs and the filters
    calls                 \* the last two calls made, with what each one did

fvars == <<filter_list, tcfilter_idx, filter_strings, filter_strings_ipv6,
           raised, fpc>>

mvars == <<variant, euid, args, self, toggle, pc, idx, td_site, handlers,
           signals, last_ok, trace, exit_status>>

avars == <<kernel, calls>>

vars == <<fvars, mvars, avars>>

----------------------------------------------------------------------------
(* Bounds of the translator's inputs *)

\* no more tokens than this in a whole filter list
MaxTokens == 3
\* no more selectors than this in a filter list
MaxSelectors == 2

(* Bounds of a run *)

\* no more durations than this in a toggle schedule
MaxToggle == 3
\* no more signals than this are delivered to a run
MaxSignals == 1

----------------------------------------------------------------------------
(* Strings *)

\* the string spelled by a sequence of pieces
RECURSIVE Join(_)
Join(s) ==
    IF s = <<>> THEN "" ELSE Head(s) \o Join(Tail(s))

\* str.split(sep): the pieces of the string between the occurrences of sep
\* (s is the string, bound to its value once)
RECURSIVE split(_, _)
split(string, sep) ==
    CHOOSE pieces \in
        { IF \A i \in 1..Len(s) : s[i] # sep
          THEN <<s>>
          ELSE LET i == CHOOSE k \in 1..Len(s) :
                            s[k] = sep /\ \A j \in 1..(k - 1) : s[j] # sep
               IN  <<SubSeq(s, 1, i - 1)>>
                       \o split(SubSeq(s, i + 1, Len(s)), sep)
          : s \in {string} } : TRUE

\* '::' in value
has_double_colon(value) ==
    \E i \in 1..(Len(value) - 1) : value[i] = ":" /\ value[i + 1] = ":"

\* 'match ip {0} {1} '.format(key, value)
match_ip(key, value) ==
    "match ip " \o key \o " " \o value \o " "

\* 'match ip6 {0} {1} '.format(key, value)
match_ip6(key, value) ==
    "match ip6 " \o key \o " " \o value \o " "

----------------------------------------------------------------------------
(* _generate_filters: the three implementations are the same code          *)
(* (netimpair.py 61-97, netimpair2.py 119-155, netimpair/__init__.py       *)
(* 62-98), up to the quotes and the text of the error message.             *)

\* append_token with the port mask appended for sport only
append_token_sport_mask_only(acc, key, value) ==
    LET k == Join(key)
        v == Join(value)
        routed ==
            IF k = "src" \/ k = "dst"
            THEN IF has_double_colon(value)
                 THEN [acc EXCEPT !.filter_string_ipv6 = @ \o match_ip6(k, v)]
                 ELSE [acc EXCEPT !.filter_string = @ \o match_ip(k, v)]
            ELSE [acc EXCEPT !.filter_string = @ \o match_ip(k, v),
                             !.filter_string_ipv6 = @ \o match_ip6(k, v)]
    IN  IF k = "sport"
        THEN [routed EXCEPT !.filter_string = @ \o "0xffff ",
                            !.filter_string_ipv6 = @ \o "0xffff "]
        ELSE routed

\* append_token with the keys other than src and dst sent to the IPv4
\* string alone
append_token_ip_only(acc, key, value) ==
    LET k == Join(key)
        v == Join(value)
        routed ==
            IF (k = "src" \/ k = "dst") /\ has_double_colon(value)
            THEN [acc EXCEPT !.filter_string_ipv6 = @ \o match_ip6(k, v)]
            ELSE [acc EXCEPT !.filter_string = @ \o match_ip(k, v)]
    IN  IF k = "sport" \/ k = "dport"
        THEN [routed EXCEPT !.filter_string = @ \o "0xffff "]
        ELSE routed

\* the body of `for token in filter_tokens` once key and value are bound:
\* acc holds the locals filter_string and filter_string_ipv6
append_token(acc, key, value) ==
    LET k == Join(key)
        v == Join(value)
        routed ==
            IF k = "src" \/ k = "dst"
            THEN IF has_double_colon(value)
                 THEN [acc EXCEPT !.filter_string_ipv6 = @ \o match_ip6(k, v)]
                 ELSE [acc EXCEPT !.filter_string = @ \o match_ip(k, v)]
            ELSE [acc EXCEPT !.filter_string = @ \o match_ip(k, v),
                             !.filter_string_ipv6 = @ \o match_ip6(k, v)]
    IN  IF k = "sport" \/ k = "dport"
        THEN [routed EXCEPT !.filter_string = @ \o "0xffff ",
                            !.filter_string_ipv6 = @ \o "0xffff "]
        ELSE routed

\* one token: token.split('='), key = token_split[0], value = token_split[1]
\* (IndexError when the token holds no '='), then the body above
token_step(acc, token) ==
    LET token_split == split(token, "=")
    IN  IF Len(token_split) < 2
        THEN [acc EXCEPT !.raised = TRUE]
        ELSE append_token(acc, token_split[1], token_split[2])

\* `for token in filter_tokens` inside the try: the loop ends at the first
\* token that raises (acc and filter_tokens are the locals and the tokens
\* left, bound to their values once)
RECURSIVE token_loop(_, _)
token_loop(locals, tokens_left) ==
    CHOOSE left \in
        { IF filter_tokens = <<>> \/ acc.raised
          THEN acc
          ELSE token_loop(token_step(acc, Head(filter_tokens)),
                          Tail(filter_tokens))
          : <<acc, filter_tokens>> \in {<<locals, tokens_left>>} } : TRUE

\* the try/except of one selector: the values of the locals filter_string
\* and filter_string_ipv6 when the try statement is left
translate_selector(tcfilter) ==
    token_loop([filter_string |-> "", filter_string_ipv6 |-> "",
                raised |-> FALSE],
               split(tcfilter, ","))

\* `if filter_string: filter_strings.append(filter_string)`
append_nonempty(list, s) ==
    IF s # "" THEN Append(list, s) ELSE list

\* the whole function: (filter_strings, filter_strings_ipv6); list is
\* filter_list, rest what the selectors before the last one give and loc
\* the locals after the last one, each bound to its value once
RECURSIVE _generate_filters(_)
_generate_filters(filter_list_arg) ==
    CHOOSE returned \in
        { IF list = <<>>
          THEN [v4 |-> <<>>, v6 |-> <<>>]
          ELSE CHOOSE appended \in
                   { [v4 |-> append_nonempty(rest.v4, loc.filter_string),
                      v6 |-> append_nonempty(rest.v6, loc.filter_string_ipv6)]
                     : <<rest, loc>> \in
                           {<<_generate_filters(SubSeq(list, 1, Len(list) - 1)),
                              translate_selector(list[Len(list)])>>} } : TRUE
          : list \in {filter_list_arg} } : TRUE

----------------------------------------------------------------------------
(* Inputs of the translator *)

Tokens ==
    { <<"dst", "=", "10.0.0.5">>,
      <<"src", "=", ":", ":", "1">>,
      <<"dport", "=", "80">>,
      <<"sport", "=", "53">>,
      <<"prio", "=", "5">>,
      <<"garbage">>,
      <<"key", "=", "a", "=", "b">> }

\* the tokens joined by ',' into one selector string
RECURSIVE comma_join(_)
comma_join(ts) ==
    IF Len(ts) = 1 THEN ts[1]
    ELSE ts[1] \o <<",">> \o comma_join(Tail(ts))

\* the list of selectors made of the tokens ts, a new selector starting
\* after each position of cuts
RECURSIVE cut_list(_, _, _)
cut_list(ts, cuts, from) ==
    LET ends == {c \in cuts : c >= from} \cup {Len(ts)}
        to == CHOOSE c \in ends : \A d \in ends : c <= d
    IN  <<comma_join(SubSeq(ts, from, to))>> \o
        (IF to = Len(ts) THEN <<>> ELSE cut_list(ts, cuts, to + 1))

TokenSeqs == UNION {[1..n -> Tokens] : n \in 1..MaxTokens}

FilterLists ==
    {<<>>} \cup
    { cut_list(ts, cuts, 1) :
        <<ts, cuts>> \in
            { p \in TokenSeqs \X SUBSET (1..(MaxTokens - 1)) :
                /\ p[2] \subseteq 1..(Len(p[1]) - 1)
                /\ Cardinality(p[2]) < MaxSelectors } }

----------------------------------------------------------------------------
(* The translator as a state machine: one step per selector *)

\* a kernel with no device up, no qdisc and no filter
kernel_fresh == [up |-> {}, qdiscs |-> {}, filters |-> <<>>]

InitFilters ==
    /\ filter_list \in FilterLists
    /\ tcfilter_idx = 1
    /\ filter_strings = <<>>
    /\ filter_strings_ipv6 = <<>>
    /\ raised = {}
    /\ fpc = "loop"
    /\ variant = "netimpair"
    /\ euid = 0
    /\ args = <<>>
    /\ self = <<>>
    /\ toggle = <<>>
    /\ pc = "idle"
    /\ idx = 1
    /\ td_site = "none"
    /\ handlers = {}
    /\ signals = 0
    /\ last_ok = TRUE
    /\ trace = <<>>
    /\ exit_status = 0
    /\ kernel = kernel_fresh
    /\ calls = <<>>

\* one iteration of `for tcfilter in filter_list` (netimpair.py 64-95)
ForTcfilter ==
    /\ fpc = "loop"
    /\ tcfilter_idx <= Len(filter_list)
    /\ LET loc == translate_selector(filter_list[tcfilter_idx])
       IN  /\ filter_strings' = append_nonempty(filter_strings, loc.filter_string)
           /\ filter_strings_ipv6' =
                  append_nonempty(filter_strings_ipv6, loc.filter_string_ipv6)
           /\ raised' = IF loc.raised THEN raised \cup {tcfilter_idx} ELSE raised
    /\ tcfilter_idx' = tcfilter_idx + 1
    /\ UNCHANGED <<filter_list, fpc, mvars, avars>>

\* `return filter_strings, filter_strings_ipv6` (netimpair.py 97)
ReturnFilters ==
    /\ fpc = "loop"
    /\ tcfilter_idx > Len(filter_list)
    /\ fpc' = "returned"
    /\ UNCHANGED <<filter_list, tcfilter_idx, filter_strings,
                   filter_strings_ipv6, raised, mvars, avars>>

NextFilters == ForTcfilter \/ ReturnFilters

SpecFilters == InitFilters /\ [][NextFilters]_vars

----------------------------------------------------------------------------
(* One run of main(): inputs *)

Variants == {"netimpair", "netimpair2", "package"}

\* args.nic, an interface of the machine
NIC == "eth0"

\* the selectors of the lists a run is given
Sel_dport22 == <<"dport", "=", "22">>
Sel_sport22 == <<"sport", "=", "22">>
Sel_src_any == <<"src", "=", "0/0">>
Sel_src_any6 == <<"src", "=", ":", ":", "/0">>
Sel_dst_dport == <<"dst", "=", "10.0.0.5", ",", "dport", "=", "80">>

\* --include: default=[] ; one selector when given
IncludeArgs == {<<>>, <<Sel_dst_dport>>}

\* --exclude: the default list of each implementation
exclude_default(v) ==
    IF v = "netimpair2"
    THEN <<Sel_sport22, Sel_dport22>>
    ELSE <<Sel_dport22, Sel_sport22>>

\* --toggle (nargs='+', type=int): position i holds i seconds, and at most
\* one position holds a negative number
Schedules ==
    UNION { { [i \in 1..n |-> IF i = neg THEN 0 - i ELSE i] : neg \in 0..n } :
            n \in 1..MaxToggle }

\* the impairment profile of the run, as the text str.format() gives it
Profile ==
    [loss_ratio |-> "10", loss_corr |-> "0", dup_ratio |-> "0",
     delay |-> "0", jitter |-> "0", delay_jitter_corr |-> "0",
     reorder_ratio |-> "0", reorder_corr |-> "0",
     limit |-> "256", buffer |-> "2000", latency |-> "20"]

ArgsOf(v) ==
    [inbound : BOOLEAN, include : IncludeArgs, exclude : {exclude_default(v)},
     subparser_name : {"netem", "rate"}, toggle : Schedules]

----------------------------------------------------------------------------
(* The trace of a run *)

\* a command handed to subprocess: where it is issued, its text, the
\* devices its text names, whether its failure raises
Cmd(site, text, dev, must) ==
    [ev |-> "cmd", site |-> site, text |-> text, dev |-> dev,
     must |-> must, secs |-> 0,
     protocol |-> "", parent |-> "", prio |-> 0, flowid |-> ""]
\* time.sleep(secs) that returned
Slept(site, secs) ==
    [ev |-> "sleep", site |-> site, text |-> "", dev |-> <<>>,
     must |-> FALSE, secs |-> secs,
     protocol |-> "", parent |-> "", prio |-> 0, flowid |-> ""]
\* a call of teardown()
TeardownCall(site) ==
    [ev |-> "teardown", site |-> site, text |-> "", dev |-> <<>>,
     must |-> FALSE, secs |-> 0,
     protocol |-> "", parent |-> "", prio |-> 0, flowid |-> ""]
\* the must-succeed command just issued at site exited with a non-zero
\* status
Failed(site) ==
    [ev |-> "failed", site |-> site, text |-> "", dev |-> <<>>,
     must |-> TRUE, secs |-> 0,
     protocol |-> "", parent |-> "", prio |-> 0, flowid |-> ""]
\* time.sleep() raised at site
Raised(site) ==
    [ev |-> "raised", site |-> site, text |-> "", dev |-> <<>>,
     must |-> FALSE, secs |-> 0,
     protocol |-> "", parent |-> "", prio |-> 0, flowid |-> ""]
\* a signal delivered while main() stood at `at`: site is "signal_action"
\* when the handler takes it, and the signal's name when the default
\* disposition does
Signalled(site, at) ==
    [ev |-> "signal", site |-> site, text |-> at, dev |-> <<>>,
     must |-> FALSE, secs |-> 0,
     protocol |-> "", parent |-> "", prio |-> 0, flowid |-> ""]

----------------------------------------------------------------------------
(* The instance *)

\* a default include list that matches IPv4 traffic alone
effective_include_ipv4_only(include) ==
    IF include # <<>> THEN include ELSE <<Sel_src_any>>

\* `include if include else ['src=0/0', 'src=::/0']`; netimpair2 appends
\* the two defaults to an empty include list inside initialize()
effective_include(include) ==
    IF include # <<>> THEN include ELSE <<Sel_src_any, Sel_src_any6>>

\* an __init__ that targets the real NIC in the inbound mode too
init_nic_always_real(nic, inbound, include, exclude) ==
    [inbound |-> inbound,
     include |-> effective_include(include),
     exclude |-> exclude,
     nic |-> nic,
     real_nic |-> nic]

\* __init__ of NetemInstance / Netem
__init__(nic, inbound, include, exclude) ==
    [inbound |-> inbound,
     include |-> effective_include(include),
     exclude |-> exclude,
     nic |-> IF inbound THEN "ifb1" ELSE nic,
     real_nic |-> nic]

\* the attributes netimpair2's initialize() assigns before its first command
initialize2_fields(nic, inbound) ==
    IF inbound
    THEN [inbound |-> inbound, real_nic |-> nic, nic |-> "ifb1"]
    ELSE [inbound |-> FALSE, nic |-> nic]

\* a 'tc filter' command: its text, and the protocol, parent, priority and
\* flowid its text gives
FilterCmd(site, text, dev, must, protocol, parent, prio, flowid) ==
    [Cmd(site, text, dev, must) EXCEPT !.protocol = protocol,
                                       !.parent = parent,
                                       !.prio = prio,
                                       !.flowid = flowid]

\* filter_commands attaching every filter at priority 3
filter_commands_one_prio(site, nic, protocol, prio, fragments, flowid) ==
    [i \in 1..Len(fragments) |->
        FilterCmd(site,
                  "tc filter add dev " \o nic \o " protocol " \o protocol
                    \o " parent 1:0 prio 3 u32 "
                    \o fragments[i] \o "flowid " \o flowid,
                  <<nic>>, TRUE, protocol, "1:0", 3, flowid)]

\* filter_commands sending every classifier's traffic to class 1:3
filter_commands_one_class(site, nic, protocol, prio, fragments, flowid) ==
    [i \in 1..Len(fragments) |->
        FilterCmd(site,
                  "tc filter add dev " \o nic \o " protocol " \o protocol
                    \o " parent 1:0 prio " \o ToString(prio) \o " u32 "
                    \o fragments[i] \o "flowid 1:3",
                  <<nic>>, TRUE, protocol, "1:0", prio, "1:3")]

\* one 'tc filter add' command per element of a list of fragments
filter_commands(site, nic, protocol, prio, fragments, flowid) ==
    [i \in 1..Len(fragments) |->
        FilterCmd(site,
                  "tc filter add dev " \o nic \o " protocol " \o protocol
                    \o " parent 1:0 prio " \o ToString(prio) \o " u32 "
                    \o fragments[i] \o "flowid " \o flowid,
                  <<nic>>, TRUE, protocol, "1:0", prio, flowid)]

\* the commands of initialize(), in the order it issues them (inc and exc
\* are the two results of _generate_filters and nic is self.nic, each
\* bound to its value once)
initialize_commands(obj, include, exclude) ==
    CHOOSE commands \in {
        (IF obj.inbound
         THEN << Cmd("modprobe", "modprobe ifb", <<>>, TRUE),
                 Cmd("ifb_up", "ip link set dev " \o nic \o " up",
                     <<nic>>, TRUE),
                 Cmd("ingress_del",
                     "tc qdisc del dev " \o obj.real_nic \o " ingress",
                     <<obj.real_nic>>, FALSE),
                 Cmd("ingress_replace",
                     "tc qdisc replace dev " \o obj.real_nic \o " ingress",
                     <<obj.real_nic>>, TRUE),
                 FilterCmd("redirect",
                     "tc filter replace dev " \o obj.real_nic
                       \o " parent ffff: protocol ip prio 1 "
                       \o "u32 match u32 0 0 flowid 1:1 action mirred egress "
                       \o "redirect dev " \o nic,
                     <<obj.real_nic, nic>>, TRUE, "ip", "ffff:", 1, "1:1") >>
         ELSE << >>)
        \o << Cmd("root_del", "tc qdisc del root dev " \o nic, <<nic>>, FALSE),
              Cmd("root_add", "tc qdisc add dev " \o nic \o " root handle 1: prio",
                  <<nic>>, TRUE) >>
        \o filter_commands("include", nic, "ip", 3, inc.v4, "1:3")
        \o filter_commands("include_ipv6", nic, "ipv6", 4, inc.v6, "1:3")
        \o filter_commands("exclude", nic, "ip", 1, exc.v4, "1:2")
        \o filter_commands("exclude_ipv6", nic, "ipv6", 2, exc.v6, "1:2")
        : <<inc, exc, nic>> \in {<<_generate_filters(include),
                                    _generate_filters(exclude), obj.nic>>} } : TRUE

\* teardown() with its last command run by check_call
teardown_commands_checked(obj) ==
    (IF obj.inbound
     THEN << FilterCmd("td_filter_del",
                 "tc filter del dev " \o obj.real_nic
                   \o " parent ffff: protocol ip prio 1",
                 <<obj.real_nic>>, FALSE, "ip", "ffff:", 1, ""),
             Cmd("td_ingress_del",
                 "tc qdisc del dev " \o obj.real_nic \o " ingress",
                 <<obj.real_nic>>, FALSE),
             Cmd("td_ifb_down", "ip link set dev ifb0 down", <<"ifb0">>, FALSE) >>
     ELSE << >>)
    \o << Cmd("td_root_del", "tc qdisc del root dev " \o obj.nic,
              <<obj.nic>>, TRUE) >>

\* the commands of teardown(), all best-effort
teardown_commands(obj) ==
    (IF obj.inbound
     THEN << FilterCmd("td_filter_del",
                 "tc filter del dev " \o obj.real_nic
                   \o " parent ffff: protocol ip prio 1",
                 <<obj.real_nic>>, FALSE, "ip", "ffff:", 1, ""),
             Cmd("td_ingress_del",
                 "tc qdisc del dev " \o obj.real_nic \o " ingress",
                 <<obj.real_nic>>, FALSE),
             Cmd("td_ifb_down", "ip link set dev ifb0 down", <<"ifb0">>, FALSE) >>
     ELSE << >>)
    \o << Cmd("td_root_del", "tc qdisc del root dev " \o obj.nic,
              <<obj.nic>>, FALSE) >>

\* a 'tc qdisc' command of netem()/emulate()/rate(), run by _check_call:
\* its text, and the parent class its text gives
QdiscCmd(site, text, dev, parent) ==
    [Cmd(site, text, dev, TRUE) EXCEPT !.parent = parent]

\* 'tc qdisc add ... handle 30:' of netem()/emulate() and of rate()
qdisc_add_command(name, nic) ==
    IF name = "netem"
    THEN QdiscCmd("qdisc_add",
                  "tc qdisc add dev " \o nic \o " parent 1:3 handle 30: netem",
                  <<nic>>, "1:3")
    ELSE QdiscCmd("qdisc_add",
                  "tc qdisc add dev " \o nic
                    \o " parent 1:3 handle 30: tbf rate 1000mbit buffer "
                    \o Profile.buffer \o " latency " \o Profile.latency \o "ms",
                  <<nic>>, "1:3")

\* impair_cmd
impair_command(name, nic) ==
    IF name = "netem"
    THEN QdiscCmd("apply",
                  "tc qdisc change dev " \o nic \o " parent 1:3 handle 30: netem loss "
                    \o Profile.loss_ratio \o "% " \o Profile.loss_corr
                    \o "% duplicate " \o Profile.dup_ratio \o "% delay "
                    \o Profile.delay \o "ms " \o Profile.jitter \o "ms "
                    \o Profile.delay_jitter_corr \o "% reorder "
                    \o Profile.reorder_ratio \o "% " \o Profile.reorder_corr \o "%",
                  <<nic>>, "1:3")
    ELSE QdiscCmd("apply",
                  "tc qdisc change dev " \o nic \o " parent 1:3 handle 30: tbf rate "
                    \o Profile.limit \o "kbit buffer " \o Profile.buffer
                    \o " latency " \o Profile.latency \o "ms",
                  <<nic>>, "1:3")

\* the command that resets the discipline to its neutral parameters
reset_command(name, nic) ==
    IF name = "netem"
    THEN QdiscCmd("reset",
                  "tc qdisc change dev " \o nic \o " parent 1:3 handle 30: netem",
                  <<nic>>, "1:3")
    ELSE QdiscCmd("reset",
                  "tc qdisc change dev " \o nic
                    \o " parent 1:3 handle 30: tbf rate 1000mbit buffer "
                    \o Profile.buffer \o " latency " \o Profile.latency \o "ms",
                  <<nic>>, "1:3")

----------------------------------------------------------------------------
(* One run of main(): the state machine *)

Init ==
    /\ variant \in Variants
    /\ euid \in {0, 1000}
    /\ args \in ArgsOf(variant)
    /\ toggle = args.toggle
    /\ self = <<>>
    /\ pc = "main"
    /\ idx = 1
    /\ td_site = "none"
    /\ handlers = {}
    /\ signals = 0
    /\ last_ok = TRUE
    /\ trace = <<>>
    /\ exit_status = 0
    /\ kernel = kernel_fresh
    /\ calls = <<>>
    /\ filter_list = <<>>
    /\ tcfilter_idx = 1
    /\ filter_strings = <<>>
    /\ filter_strings_ipv6 = <<>>
    /\ raised = {}
    /\ fpc = "idle"

\* check_call that returns whatever the command's exit status
check_call_no_raise(c, ok, next) ==
    /\ last_ok' = ok
    /\ trace' = IF ok THEN Append(trace, c)
                ELSE Append(Append(trace, c), Failed(c.site))
    /\ pc' = next

\* a must-succeed command c has been run with outcome ok: the call raises
\* when the command failed, and control goes on to `next` otherwise
check_call(c, ok, next) ==
    /\ last_ok' = ok
    /\ trace' = IF ok THEN Append(trace, c)
                ELSE Append(Append(trace, c), Failed(c.site))
    /\ pc' = IF ok THEN next ELSE "except"

\* `while toggle:` of the toggle loop, the schedule left being t
while_toggle(v, t) ==
    IF t = <<>> THEN "call_teardown"
    ELSE IF v = "package" THEN "qdisc_add" ELSE "apply"

\* main() without the privilege check
MainStart_no_check ==
    /\ pc = "main"
    /\ pc' = "initialize"
    /\ self' = IF variant = "netimpair2" THEN <<>>
               ELSE __init__(NIC, args.inbound, args.include, args.exclude)
    /\ UNCHANGED <<fvars, avars, variant, euid, args, toggle, idx, td_site,
                   handlers, signals, last_ok, trace, exit_status>>

\* main() from the privilege check to the call of initialize()
MainStart ==
    /\ pc = "main"
    /\ IF euid # 0
       THEN /\ pc' = "exited"
            /\ exit_status' = 1
            /\ self' = self
       ELSE /\ pc' = "initialize"
            /\ exit_status' = exit_status
            /\ self' = IF variant = "netimpair2" THEN <<>>
                       ELSE __init__(NIC, args.inbound, args.include,
                                     args.exclude)
    /\ UNCHANGED <<fvars, avars, variant, euid, args, toggle, idx, td_site,
                   handlers, signals, last_ok, trace>>

\* an initialize() that issues its commands last to first
InitializeStep_reversed ==
    /\ pc = "initialize"
    /\ LET obj == IF variant = "netimpair2"
                  THEN initialize2_fields(NIC, args.inbound)
                  ELSE self
           cmds == IF variant = "netimpair2"
                   THEN initialize_commands(obj,
                            effective_include(args.include), args.exclude)
                   ELSE initialize_commands(obj, obj.include, obj.exclude)
       IN  /\ self' = obj
           /\ \E cs \in {cmds} : \E c \in {cs[Len(cs) + 1 - idx]} : \E ok \in BOOLEAN :
                 IF c.must
                 THEN check_call(c, ok, IF idx = Len(cs) THEN "init_signals"
                                        ELSE "initialize")
                 ELSE /\ last_ok' = ok
                      /\ trace' = Append(trace, c)
                      /\ pc' = IF idx = Len(cs) THEN "init_signals"
                               ELSE "initialize"
           /\ idx' = idx + 1
    /\ UNCHANGED <<fvars, avars, variant, euid, args, toggle, td_site, handlers,
                   signals, exit_status>>

\* initialize(): its next command
InitializeStep ==
    /\ pc = "initialize"
    /\ LET obj == IF variant = "netimpair2"
                  THEN initialize2_fields(NIC, args.inbound)
                  ELSE self
           cmds == IF variant = "netimpair2"
                   THEN initialize_commands(obj,
                            effective_include(args.include), args.exclude)
                   ELSE initialize_commands(obj, obj.include, obj.exclude)
       IN  /\ self' = obj
           /\ \E cs \in {cmds} : \E c \in {cs[idx]} : \E ok \in BOOLEAN :
                 IF c.must
                 THEN check_call(c, ok, IF idx = Len(cs) THEN "init_signals"
                                        ELSE "initialize")
                 ELSE /\ last_ok' = ok
                      /\ trace' = Append(trace, c)
                      /\ pc' = IF idx = Len(cs) THEN "init_signals"
                               ELSE "initialize"
           /\ idx' = idx + 1
    /\ UNCHANGED <<fvars, avars, variant, euid, args, toggle, td_site, handlers,
                   signals, exit_status>>

\* init_signals(): signal.signal(SIGINT, ...), then signal.signal(SIGTERM, ...)
InstallHandler ==
    /\ pc = "init_signals"
    /\ handlers' = IF "SIGINT" \in handlers THEN handlers \cup {"SIGTERM"}
                   ELSE handlers \cup {"SIGINT"}
    /\ pc' = IF "SIGINT" \notin handlers THEN "init_signals"
             ELSE IF variant = "package" THEN while_toggle(variant, toggle)
             ELSE "qdisc_add"
    /\ UNCHANGED <<fvars, avars, variant, euid, args, self, toggle, idx, td_site,
                   signals, last_ok, trace, exit_status>>

\* 'tc qdisc add ... handle 30:': the first command of netem() and rate(),
\* and of emulate() and rate() each time `with mng()` is entered
IssueQdiscAdd ==
    /\ pc = "qdisc_add"
    /\ \E ok \in BOOLEAN :
          check_call(qdisc_add_command(args.subparser_name, self.nic), ok,
                     IF variant = "package" THEN "apply"
                     ELSE while_toggle(variant, toggle))
    /\ UNCHANGED <<fvars, avars, variant, euid, args, self, toggle, idx, td_site,
                   handlers, signals, exit_status>>

\* the command that applies the impairment profile
IssueApply ==
    /\ pc = "apply"
    /\ \E ok \in BOOLEAN :
          check_call(impair_command(args.subparser_name, self.nic), ok,
                     "sleep_enabled")
    /\ UNCHANGED <<fvars, avars, variant, euid, args, self, toggle, idx, td_site,
                   handlers, signals, exit_status>>

\* time.sleep(toggle.pop(0)) at site, going on to next: a negative duration
\* raises out of time.sleep, which no except clause of main() catches
sleep_pop(site, next) ==
    /\ toggle' = Tail(toggle)
    /\ IF Head(toggle) < 0
       THEN /\ trace' = Append(trace, Raised(site))
            /\ pc' = "exited"
            /\ exit_status' = 1
       ELSE /\ trace' = Append(trace, Slept(site, Head(toggle)))
            /\ pc' = next
            /\ exit_status' = exit_status

\* the sleep that follows the apply command; then `if not toggle: return`
\* (netimpair, netimpair2), or `if not toggle: break` out of the with
\* block, whose exit runs the generator past its yield (package)
SleepEnabled ==
    /\ pc = "sleep_enabled"
    /\ sleep_pop("enabled",
                 IF Tail(toggle) # <<>> \/ variant = "package" THEN "reset"
                 ELSE "call_teardown")
    /\ UNCHANGED <<fvars, avars, variant, euid, args, self, idx, td_site, handlers,
                   signals, last_ok>>

\* the command that resets the discipline: between the two sleeps, and in
\* the package at every exit of the with block
IssueReset ==
    /\ pc = "reset"
    /\ \E ok \in BOOLEAN :
          check_call(reset_command(args.subparser_name, self.nic), ok,
                     IF toggle = <<>> THEN "call_teardown"
                     ELSE "sleep_disabled")
    /\ UNCHANGED <<fvars, avars, variant, euid, args, self, toggle, idx, td_site,
                   handlers, signals, exit_status>>

\* the sleep that follows the reset command; then `while toggle:`
SleepDisabled ==
    /\ pc = "sleep_disabled"
    /\ sleep_pop("disabled", while_toggle(variant, Tail(toggle)))
    /\ UNCHANGED <<fvars, avars, variant, euid, args, self, idx, td_site, handlers,
                   signals, last_ok>>

\* teardown() is called from site
call_teardown(site) ==
    /\ trace' = Append(trace, TeardownCall(site))
    /\ pc' = "teardown"
    /\ idx' = 1
    /\ td_site' = site

\* a main() that returns at the end of the schedule without teardown()
CallTeardown_skipped ==
    /\ pc = "call_teardown"
    /\ pc' = "teardown_done"
    /\ td_site' = "main"
    /\ UNCHANGED <<fvars, avars, variant, euid, args, self, toggle, idx,
                   handlers, signals, last_ok, trace, exit_status>>

\* `netem.teardown()` on normal completion
CallTeardown ==
    /\ pc = "call_teardown"
    /\ call_teardown("main")
    /\ UNCHANGED <<fvars, avars, variant, euid, args, self, toggle, handlers,
                   signals, last_ok, exit_status>>

\* an except clause that exits without calling teardown()
ExceptHandler_no_teardown ==
    /\ pc = "except"
    /\ pc' = "teardown_done"
    /\ td_site' = "except"
    /\ UNCHANGED <<fvars, avars, variant, euid, args, self, toggle, idx, handlers,
                   signals, last_ok, trace, exit_status>>

\* the except clause of main(): traceback, then `netem.teardown()`
ExceptHandler ==
    /\ pc = "except"
    /\ call_teardown("except")
    /\ UNCHANGED <<fvars, avars, variant, euid, args, self, toggle, handlers,
                   signals, last_ok, exit_status>>

\* teardown(): its next command, whose exit status is discarded
TeardownStep ==
    /\ pc = "teardown"
    /\ LET cmds == teardown_commands(self)
       IN  /\ trace' = Append(trace, cmds[idx])
           /\ pc' = IF idx = Len(cmds) THEN "teardown_done" ELSE "teardown"
    /\ last_ok' \in BOOLEAN
    /\ idx' = idx + 1
    /\ UNCHANGED <<fvars, avars, variant, euid, args, self, toggle, td_site,
                   handlers, signals, exit_status>>

\* a package whose emulate()/rate() run the reset after their yield in a
\* finally clause: exit(5) raised by signal_action inside `with mng()`
\* goes through it
AfterTeardown_reset_in_finally ==
    /\ pc = "teardown_done"
    /\ IF td_site = "signal" /\ variant = "package"
       THEN /\ pc' = "reset"
            /\ exit_status' = exit_status
       ELSE /\ pc' = "exited"
            /\ exit_status' = IF td_site = "main" THEN 0 ELSE 5
    /\ UNCHANGED <<fvars, avars, variant, euid, args, self, toggle, idx, td_site,
                   handlers, signals, last_ok, trace>>

\* what follows the return of teardown(): the end of main(), or exit(5) in
\* the except clause and in signal_action
AfterTeardown ==
    /\ pc = "teardown_done"
    /\ pc' = "exited"
    /\ exit_status' = IF td_site = "main" THEN 0 ELSE 5
    /\ UNCHANGED <<fvars, avars, variant, euid, args, self, toggle, idx, td_site,
                   handlers, signals, last_ok, trace>>

\* SIGINT or SIGTERM is delivered: signal_action runs teardown() and
\* exit(5) when installed for the signal; otherwise SIGTERM kills the
\* process and SIGINT raises KeyboardInterrupt, which main() does not catch
Signal ==
    /\ pc \notin {"exited", "idle"}
    /\ signals < MaxSignals
    /\ signals' = signals + 1
    /\ \E sig \in {"SIGINT", "SIGTERM"} :
          IF sig \in handlers
          THEN /\ trace' = Append(Append(trace, Signalled("signal_action", pc)),
                                  TeardownCall("signal"))
               /\ pc' = "teardown"
               /\ idx' = 1
               /\ td_site' = "signal"
               /\ exit_status' = exit_status
          ELSE /\ trace' = Append(trace, Signalled(sig, pc))
               /\ pc' = "exited"
               /\ exit_status' \in (IF sig = "SIGTERM" THEN {143} ELSE {1, 130})
               /\ UNCHANGED <<idx, td_site>>
    /\ UNCHANGED <<fvars, avars, variant, euid, args, self, toggle, handlers, last_ok>>

Next ==
    \/ MainStart
    \/ InitializeStep
    \/ InstallHandler
    \/ IssueQdiscAdd
    \/ IssueApply
    \/ SleepEnabled
    \/ IssueReset
    \/ SleepDisabled
    \/ CallTeardown
    \/ ExceptHandler
    \/ TeardownStep
    \/ AfterTeardown
    \/ Signal

Spec == Init /\ [][Next]_vars

\* a step of a run in which no must-succeed command fails, no sleep raises
\* and no signal is delivered
NextUndisturbed ==
    /\ \/ MainStart
       \/ InitializeStep
       \/ InstallHandler
       \/ IssueQdiscAdd
       \/ IssueApply
       \/ SleepEnabled
       \/ IssueReset
       \/ SleepDisabled
       \/ CallTeardown
       \/ TeardownStep
       \/ AfterTeardown
    /\ \A j \in 1..Len(trace') : trace'[j].ev \notin {"failed", "raised", "signal"}

\* such runs, in which the interpreter goes on to its next statement, and
\* every command and every sleep returns: a run that can take a step
\* takes one
FairSpec == Init /\ [][NextUndisturbed]_vars /\ WF_vars(NextUndisturbed)

----------------------------------------------------------------------------
(* The class called directly, over a kernel *)

\* no more calls than this are made on an instance
MaxCalls == 3

\* the root qdisc 'handle 1: prio' of a device, and its ingress qdisc
root_qdisc(d) == [dev |-> d, parent |-> "root", handle |-> "1:"]
ingress_qdisc(d) == [dev |-> d, parent |-> "ingress", handle |-> "ffff:"]

\* the filter a 'tc filter' command attaches
filter_of(c) ==
    [dev |-> c.dev[1], parent |-> c.parent, protocol |-> c.protocol,
     prio |-> c.prio, text |-> c.text]

\* what the kernel makes of command c in state k: the state it leaves and
\* whether the command exits with status 0.  'qdisc add' fails on a handle
\* that exists, a delete fails when there is nothing to delete, deleting a
\* qdisc removes the filters and the qdiscs attached under it, a filter
\* needs the qdisc it is attached to.
kernel_apply(k, c) ==
    LET d == c.dev[1]
        keep(P(_)) == SelectSeq(k.filters, LAMBDA f : ~P(f))
        some(P(_)) == \E i \in 1..Len(k.filters) : P(k.filters[i])
        failed == [kernel |-> k, ok |-> FALSE]
        done(k2) == [kernel |-> k2, ok |-> TRUE]
        on_ingress(f) == f.dev = d /\ f.parent = "ffff:"
        on_root(f) == f.dev = d /\ f.parent = "1:0"
        same_prio(f) == on_ingress(f) /\ f.prio = c.prio
    IN  CASE c.site = "modprobe" -> done(k)
          [] c.site = "ifb_up" -> done([k EXCEPT !.up = @ \cup {d}])
          [] c.site = "td_ifb_down" -> done([k EXCEPT !.up = @ \ {d}])
          [] c.site \in {"ingress_del", "td_ingress_del"} ->
                 IF ingress_qdisc(d) \in k.qdiscs
                 THEN done([k EXCEPT !.qdiscs = @ \ {ingress_qdisc(d)},
                                     !.filters = keep(on_ingress)])
                 ELSE failed
          [] c.site = "ingress_replace" ->
                 done([k EXCEPT !.qdiscs = @ \cup {ingress_qdisc(d)}])
          [] c.site = "redirect" ->
                 IF ingress_qdisc(d) \in k.qdiscs
                 THEN done([k EXCEPT !.filters =
                                Append(keep(same_prio), filter_of(c))])
                 ELSE failed
          [] c.site = "td_filter_del" ->
                 IF some(same_prio)
                 THEN done([k EXCEPT !.filters = keep(same_prio)])
                 ELSE failed
          [] c.site \in {"root_del", "td_root_del"} ->
                 IF root_qdisc(d) \in k.qdiscs
                 THEN done([k EXCEPT
                          !.qdiscs = {q \in @ : q.dev # d \/ q.parent = "ingress"},
                          !.filters = keep(on_root)])
                 ELSE failed
          [] c.site = "root_add" ->
                 IF root_qdisc(d) \in k.qdiscs
                 THEN failed
                 ELSE done([k EXCEPT !.qdiscs = @ \cup {root_qdisc(d)}])
          [] c.site \in {"include", "include_ipv6", "exclude", "exclude_ipv6"} ->
                 IF root_qdisc(d) \in k.qdiscs
                 THEN done([k EXCEPT !.filters = Append(@, filter_of(c))])
                 ELSE failed

\* run_commands with every command run by check_call
RECURSIVE run_commands_all_checked(_, _, _, _)
run_commands_all_checked(k, cmds, i, faults) ==
    IF i > Len(cmds)
    THEN [kernel |-> k, issued |-> <<>>, raised |-> FALSE]
    ELSE LET c == cmds[i]
             r == IF i \in faults THEN [kernel |-> k, ok |-> FALSE]
                  ELSE kernel_apply(k, c)
             e == [site |-> c.site, text |-> c.text, dev |-> c.dev,
                   must |-> c.must, ok |-> r.ok]
         IN  IF ~r.ok
             THEN [kernel |-> r.kernel, issued |-> <<e>>, raised |-> TRUE]
             ELSE LET rest == run_commands_all_checked(r.kernel, cmds, i + 1,
                                                       faults)
                  IN  [rest EXCEPT !.issued = <<e>> \o @]

\* run_commands with the best-effort commands left out
RECURSIVE run_commands_skip_best_effort(_, _, _, _)
run_commands_skip_best_effort(k, cmds, i, faults) ==
    IF i > Len(cmds)
    THEN [kernel |-> k, issued |-> <<>>, raised |-> FALSE]
    ELSE LET c == cmds[i]
             r == IF i \in faults THEN [kernel |-> k, ok |-> FALSE]
                  ELSE kernel_apply(k, c)
             e == [site |-> c.site, text |-> c.text, dev |-> c.dev,
                   must |-> c.must, ok |-> r.ok]
         IN  IF ~c.must
             THEN run_commands_skip_best_effort(k, cmds, i + 1, faults)
             ELSE IF ~r.ok
             THEN [kernel |-> r.kernel, issued |-> <<e>>, raised |-> TRUE]
             ELSE LET rest == run_commands_skip_best_effort(r.kernel, cmds,
                                                            i + 1, faults)
                  IN  [rest EXCEPT !.issued = <<e>> \o @]

\* the commands cmds[i..] run in order on kernel k, those of `faults`
\* failing for a reason outside the kernel's traffic-control state:
\* subprocess.call() discards the exit status of a best-effort command,
\* check_call() (the assert of netimpair2) raises on a non-zero one
RECURSIVE run_commands(_, _, _, _)
run_commands(k, cmds, i, faults) ==
    IF i > Len(cmds)
    THEN [kernel |-> k, issued |-> <<>>, raised |-> FALSE]
    ELSE LET c == cmds[i]
             r == IF i \in faults THEN [kernel |-> k, ok |-> FALSE]
                  ELSE kernel_apply(k, c)
             e == [site |-> c.site, text |-> c.text, dev |-> c.dev,
                   must |-> c.must, ok |-> r.ok]
         IN  IF c.must /\ ~r.ok
             THEN [kernel |-> r.kernel, issued |-> <<e>>, raised |-> TRUE]
             ELSE LET rest == run_commands(r.kernel, cmds, i + 1, faults)
                  IN  [rest EXCEPT !.issued = <<e>> \o @]

\* how many calls have been made
ncalls == IF calls = <<>> THEN 0 ELSE calls[Len(calls)].nth

\* the record of the call just made: what it was, the attributes the
\* instance had when called, the commands it issued with their outcomes,
\* how it ended, which commands failed for an outside reason
Call(op, issued, result, faults) ==
    [op |-> op, attrs |-> DOMAIN self, issued |-> issued, result |-> result,
     faults |-> faults, nth |-> ncalls + 1]

\* the calls kept once call c is made: c and the one before it
log_call(c) == IF calls = <<>> THEN <<c>> ELSE <<calls[Len(calls)], c>>

\* the instance is constructed (netimpair2's class has no __init__), and
\* nothing has been called on it
InitApi ==
    /\ variant \in Variants
    /\ euid = 0
    /\ args \in {a \in ArgsOf(variant) :
                    a.subparser_name = "netem" /\ a.toggle = <<1>>}
    /\ toggle = <<>>
    /\ self = IF variant = "netimpair2" THEN <<>>
              ELSE __init__(NIC, args.inbound, args.include, args.exclude)
    /\ pc = "api"
    /\ idx = 1
    /\ td_site = "none"
    /\ handlers = {}
    /\ signals = 0
    /\ last_ok = TRUE
    /\ trace = <<>>
    /\ exit_status = 0
    /\ kernel = kernel_fresh
    /\ calls = <<>>
    /\ filter_list = <<>>
    /\ tcfilter_idx = 1
    /\ filter_strings = <<>>
    /\ filter_strings_ipv6 = <<>>
    /\ raised = {}
    /\ fpc = "idle"

\* a call of initialize(), at most one of its commands failing for an
\* outside reason
ApiInitialize ==
    /\ pc = "api"
    /\ ncalls < MaxCalls
    /\ LET obj == IF variant = "netimpair2"
                  THEN initialize2_fields(NIC, args.inbound)
                  ELSE self
           cmds == IF variant = "netimpair2"
                   THEN initialize_commands(obj,
                            effective_include(args.include), args.exclude)
                   ELSE initialize_commands(obj, obj.include, obj.exclude)
       IN  \E cs \in {cmds} : \E fault \in 0..Len(cs) :
              \E r \in {run_commands(kernel, cs, 1, {fault} \ {0})} :
                  /\ self' = obj
                  /\ kernel' = r.kernel
                  /\ calls' = log_call(Call("initialize", r.issued,
                         IF r.raised THEN "raised" ELSE "returned",
                         {fault} \ {0}))
    /\ UNCHANGED <<fvars, variant, euid, args, toggle, pc, idx, td_site,
                   handlers, signals, last_ok, trace, exit_status>>

\* a call of teardown(), any of its commands failing for an outside
\* reason; `self.inbound` raises AttributeError on an instance that has no
\* such attribute
ApiTeardown ==
    /\ pc = "api"
    /\ ncalls < MaxCalls
    /\ IF "inbound" \in DOMAIN self
       THEN LET cmds == teardown_commands(self)
            IN  \E cs \in {cmds} : \E faults \in SUBSET (1..Len(cs)) :
                   \E r \in {run_commands(kernel, cs, 1, faults)} :
                       /\ kernel' = r.kernel
                       /\ calls' = log_call(Call("teardown", r.issued,
                              IF r.raised THEN "raised" ELSE "returned",
                              faults))
       ELSE /\ kernel' = kernel
            /\ calls' = log_call(Call("teardown", <<>>, "AttributeError", {}))
    /\ UNCHANGED <<fvars, variant, euid, args, self, toggle, pc, idx, td_site,
                   handlers, signals, last_ok, trace, exit_status>>

NextApi == ApiInitialize \/ ApiTeardown

SpecApi == InitApi /\ [][NextApi]_vars

----------------------------------------------------------------------------
(* Properties of the translator (checked under SpecFilters) *)

\* the step just taken is the loop iteration on selector number k
IteratedOn(k) ==
    /\ fpc = "loop"
    /\ k \in 1..Len(filter_list)
    /\ tcfilter_idx = k
    /\ tcfilter_idx' = k + 1

SelectorTokens(sel) == split(sel, ",")
HasEq(token) == Len(split(token, "=")) >= 2
KeyValueForm(token) == Len(split(token, "=")) = 2
KeyOf(token) == Join(split(token, "=")[1])
ValueOf(token) == Join(split(token, "=")[2])
IsAddrToken(token) == HasEq(token) /\ KeyOf(token) \in {"src", "dst"}
IsPortToken(token) == HasEq(token) /\ KeyOf(token) \in {"sport", "dport"}
IsV6Addr(token) == IsAddrToken(token) /\ has_double_colon(split(token, "=")[2])
IsV4Addr(token) == IsAddrToken(token) /\ ~has_double_colon(split(token, "=")[2])
AllTokens(sel, P(_)) ==
    \A i \in 1..Len(SelectorTokens(sel)) : P(SelectorTokens(sel)[i])
SomeToken(sel, P(_)) ==
    \E i \in 1..Len(SelectorTokens(sel)) : P(SelectorTokens(sel)[i])

Sel_src6_sport == <<"src", "=", ":", ":", "1", ",", "sport", "=", "53">>
Sel_prio == <<"prio", "=", "5">>
Sel_dst_garbage == <<"dst", "=", "10.0.0.5", ",", "garbage">>

\* a selector made of address tokens of one family (v6 or not) and of
\* sport/dport tokens, with at least one of each
AddrAndPorts(sel, v6) ==
    /\ AllTokens(sel, KeyValueForm)
    /\ AllTokens(sel, LAMBDA t : IsPortToken(t) \/
                                 (IF v6 THEN IsV6Addr(t) ELSE IsV4Addr(t)))
    /\ SomeToken(sel, IsAddrToken)
    /\ SomeToken(sel, IsPortToken)

\* C1 (as claimed): a selector with an address token and sport/dport tokens
\* adds a fragment only to the list of the address's family: an IPv4
\* address adds nothing to the IPv6 list, an IPv6 address nothing to the
\* IPv4 list.
C1_OnlyAddressFamily ==
    [][\A k \in 1..Len(filter_list) :
          IteratedOn(k) =>
              /\ AddrAndPorts(filter_list[k], FALSE)
                     => filter_strings_ipv6' = filter_strings_ipv6
              /\ AddrAndPorts(filter_list[k], TRUE)
                     => filter_strings' = filter_strings]_vars

\* the concatenation, in token order, of 'match <proto> <key> <value> ',
\* each sport/dport token followed by '0xffff '
RECURSIVE Concatenation(_, _)
Concatenation(tokens, proto) ==
    IF tokens = <<>> THEN ""
    ELSE "match " \o proto \o " " \o KeyOf(Head(tokens)) \o " "
             \o ValueOf(Head(tokens)) \o " "
             \o (IF IsPortToken(Head(tokens)) THEN "0xffff " ELSE "")
             \o Concatenation(Tail(tokens), proto)

\* C2: for a selector whose tokens all have the form key=value, the fragment
\* appended to the list of the selector's own family (the family none of
\* its address tokens contradicts) is the concatenation, in token order, of
\* 'match ip[6] <key> <value> ', each sport/dport token and no other being
\* followed by '0xffff '; the two examples of the claim give exactly the
\* strings it names.
C2_FragmentIsConcatenation ==
    [][\A k \in 1..Len(filter_list) :
          (IteratedOn(k) /\ AllTokens(filter_list[k], KeyValueForm)) =>
              LET sel == filter_list[k] IN
              /\ ~SomeToken(sel, IsV6Addr) =>
                     filter_strings' = Append(filter_strings,
                         Concatenation(SelectorTokens(sel), "ip"))
              /\ ~SomeToken(sel, IsV4Addr) =>
                     filter_strings_ipv6' = Append(filter_strings_ipv6,
                         Concatenation(SelectorTokens(sel), "ip6"))
              /\ sel = Sel_dst_dport =>
                     filter_strings' = Append(filter_strings,
                         "match ip dst 10.0.0.5 match ip dport 80 0xffff ")
              /\ sel = Sel_src6_sport =>
                     filter_strings_ipv6' = Append(filter_strings_ipv6,
                         "match ip6 src ::1 match ip6 sport 53 0xffff ")]_vars

\* C2 witness: 'dst=10.0.0.5,dport=80' has been translated
C2_Witness ==
    /\ Len(filter_list) >= 1
    /\ filter_list[1] = Sel_dst_dport
    /\ tcfilter_idx = 2
    /\ filter_strings = <<"match ip dst 10.0.0.5 match ip dport 80 0xffff ">>

\* a selector with at least one token that has no '='
Malformed(sel) == SomeToken(sel, LAMBDA t : ~HasEq(t))

\* C3 (as claimed): a selector with a token that has no '=' is skipped: it
\* contributes no fragment to either list, whatever its other tokens, and
\* the result is the one the list without the malformed selectors gives.
C3_MalformedSelectorSkipped ==
    fpc = "returned" =>
        LET others == SelectSeq(filter_list, LAMBDA sel : ~Malformed(sel))
        IN  /\ filter_strings = _generate_filters(others).v4
            /\ filter_strings_ipv6 = _generate_filters(others).v6

\* a selector of one token, which has a key, and the key is none of src,
\* dst, sport, dport
GenericSingle(sel) ==
    /\ Len(SelectorTokens(sel)) = 1
    /\ HasEq(sel)
    /\ KeyOf(sel) \notin {"src", "dst", "sport", "dport"}

\* C4 (as claimed): a selector whose single token has a key other than src,
\* dst, sport, dport appends exactly one fragment to each list, and the two
\* appended strings are equal.
C4_IdenticalFragment ==
    [][\A k \in 1..Len(filter_list) :
          (IteratedOn(k) /\ GenericSingle(filter_list[k])) =>
              /\ Len(filter_strings') = Len(filter_strings) + 1
              /\ Len(filter_strings_ipv6') = Len(filter_strings_ipv6) + 1
              /\ filter_strings'[Len(filter_strings')] =
                     filter_strings_ipv6'[Len(filter_strings_ipv6')]]_vars

\* what may follow the protocol word: '<key> <value> ', the value being the
\* text after the first '=' (up to the next '=', or whole)
KeyValueTexts(token) ==
    LET ps == split(token, "=")
        whole == SubSeq(token, Len(ps[1]) + 2, Len(token))
    IN  { KeyOf(token) \o " " \o v \o " " : v \in {Join(ps[2]), Join(whole)} }

\* C4 (amended): such a selector appends exactly one fragment to each list,
\* and the two are the same match clause, each for its own protocol:
\* 'match ip <key> <value> ' in the IPv4 list and 'match ip6 <key> <value> '
\* in the IPv6 list.
C4_SameClauseBothFamilies ==
    [][\A k \in 1..Len(filter_list) :
          (IteratedOn(k) /\ GenericSingle(filter_list[k])) =>
              \E kv \in KeyValueTexts(filter_list[k]) :
                  /\ filter_strings' =
                         Append(filter_strings, "match ip " \o kv)
                  /\ filter_strings_ipv6' =
                         Append(filter_strings_ipv6, "match ip6 " \o kv)]_vars

\* C4 witness: 'prio=5' has been translated into both lists
C4_Witness ==
    /\ Len(filter_list) >= 1
    /\ filter_list[1] = Sel_prio
    /\ tcfilter_idx = 2
    /\ filter_strings = <<"match ip prio 5 ">>
    /\ filter_strings_ipv6 = <<"match ip6 prio 5 ">>

\* the text of a token after its first '=': the pieces that follow the
\* key, with the '=' signs between them
RECURSIVE JoinEq(_)
JoinEq(pieces) ==
    IF pieces = <<>> THEN ""
    ELSE IF Len(pieces) = 1 THEN Join(pieces[1])
    ELSE Join(pieces[1]) \o "=" \o JoinEq(Tail(pieces))
ValueAfterFirstEq(token) == JoinEq(Tail(split(token, "=")))

\* the concatenation, in token order, of 'match <proto> <key> <value> ',
\* the value being all the text after the first '=', each sport/dport
\* token followed by '0xffff '
RECURSIVE ConcatenationFirstEq(_, _)
ConcatenationFirstEq(tokens, proto) ==
    IF tokens = <<>> THEN ""
    ELSE "match " \o proto \o " " \o KeyOf(Head(tokens)) \o " "
             \o ValueAfterFirstEq(Head(tokens)) \o " "
             \o (IF IsPortToken(Head(tokens)) THEN "0xffff " ELSE "")
             \o ConcatenationFirstEq(Tail(tokens), proto)

\* C23 (as claimed): each token is split on its first '=' only, so for a
\* selector whose tokens all contain '=', the fragment appended to the list
\* of the selector's own family carries, for every token, the whole text
\* after the first '=' as the value: 'key=a=b' gives 'match ip key a=b '.
C23_SplitOnFirstEq ==
    [][\A k \in 1..Len(filter_list) :
          (IteratedOn(k) /\ AllTokens(filter_list[k], HasEq)) =>
              LET sel == filter_list[k] IN
              /\ ~SomeToken(sel, IsV6Addr) =>
                     filter_strings' = Append(filter_strings,
                         ConcatenationFirstEq(SelectorTokens(sel), "ip"))
              /\ ~SomeToken(sel, IsV4Addr) =>
                     filter_strings_ipv6' = Append(filter_strings_ipv6,
                         ConcatenationFirstEq(SelectorTokens(sel), "ip6"))]_vars

----------------------------------------------------------------------------
(* Properties of a run (checked under Spec) *)

InitSites ==
    {"modprobe", "ifb_up", "ingress_del", "ingress_replace", "redirect",
     "root_del", "root_add", "include", "include_ipv6", "exclude",
     "exclude_ipv6"}
ToggleSites == {"qdisc_add", "apply", "reset"}
TeardownSites ==
    {"td_filter_del", "td_ingress_del", "td_ifb_down", "td_root_del"}

\* positions of the trace
Pos == 1..Len(trace)
IsCmd(j, sites) == trace[j].ev = "cmd" /\ trace[j].site \in sites
IsSleep(j) == trace[j].ev = "sleep"
FailedAt(j, sites) == trace[j].ev = "failed" /\ trace[j].site \in sites
TeardownCalls == {j \in Pos : trace[j].ev = "teardown"}
Sleeps == SelectSeq(trace, LAMBDA e : e.ev = "sleep")
Exited == pc = "exited"

\* no command has failed, no sleep has raised, no signal has arrived
Undisturbed ==
    \A j \in Pos : trace[j].ev \notin {"failed", "raised", "signal"}

\* every duration of the schedule has been slept
ScheduleDone == toggle = <<>> /\ Len(Sleeps) = Len(args.toggle)

\* the kind of phase number i (1-based): enabled first, then alternating
PhaseKind(i) == IF i % 2 = 1 THEN "enabled" ELSE "disabled"

\* C5 (as claimed): with no failure and no signal, the loop holds exactly
\* the phases of the schedule, in order: phase i lasts d_i, enabled phases
\* (right after the apply command) and disabled phases (right after the
\* reset command) alternate starting with enabled, one schedule element
\* is consumed per phase, and after the last phase the loop issues neither
\* an apply nor a reset command again.
C5_PhasesFollowSchedule ==
    Undisturbed =>
        /\ Len(Sleeps) + Len(toggle) = Len(args.toggle)
        /\ \A i \in 1..Len(Sleeps) :
              /\ Sleeps[i].secs = args.toggle[i]
              /\ Sleeps[i].site = PhaseKind(i)
        /\ \A j \in Pos :
              IsSleep(j) =>
                  /\ j > 1
                  /\ IsCmd(j - 1, {IF trace[j].site = "enabled" THEN "apply"
                                   ELSE "reset"})
        /\ ScheduleDone =>
              \A j \in Pos :
                  IsCmd(j, ToggleSites) => \E m \in Pos : m > j /\ IsSleep(m)

\* C6 (as claimed): with no failure and no signal, once an odd-length
\* schedule has been slept through, no reset command has been issued after
\* the last enabled phase; for a single-element schedule no reset command
\* is issued at all.
C6_NoResetAfterLastEnabledPhase ==
    (Undisturbed /\ ScheduleDone /\ Len(args.toggle) % 2 = 1) =>
        /\ \A j \in Pos :
              IsCmd(j, {"reset"}) => \E m \in Pos : m > j /\ IsSleep(m)
        /\ Len(args.toggle) = 1 => \A j \in Pos : ~IsCmd(j, {"reset"})

\* C7 (as claimed): a signal delivered at any point after the privilege
\* check makes the process run teardown() and exit with status 5.
C7_SignalRunsTeardownAndExits5 ==
    Exited =>
        \A j \in Pos :
            (trace[j].ev = "signal" /\ trace[j].text # "main") =>
                /\ exit_status = 5
                /\ \E m \in TeardownCalls : m > j

\* C8: once a must-succeed command of initialize() has failed, no further
\* provisioning command and no impairment command is issued, teardown()
\* is called at most once, and exactly once by the time the process has
\* exited (no signal having killed it meanwhile).
C8_InitFailureAbortsAndTearsDownOnce ==
    \A j \in Pos :
        FailedAt(j, InitSites) =>
            /\ \A m \in Pos : m > j => ~IsCmd(m, InitSites \cup ToggleSites)
            /\ Cardinality(TeardownCalls) <= 1
            /\ (Exited /\ signals = 0) =>
                  /\ Cardinality(TeardownCalls) = 1
                  /\ \A m \in TeardownCalls : m > j
                  /\ \E m \in Pos : m > j /\ IsCmd(m, {"td_root_del"})

\* C8 witness: the creation of the root prio qdisc failed, and the process
\* has exited after one teardown()
C8_Witness ==
    /\ Exited
    /\ signals = 0
    /\ \E j \in Pos : FailedAt(j, {"root_add"})
    /\ Cardinality(TeardownCalls) = 1
    /\ IsCmd(Len(trace), {"td_root_del"})

\* C9 (as claimed): when a provisioning command has failed, the process
\* exits with status 1.
C9_InitFailureExits1 ==
    (Exited /\ signals = 0 /\ \E j \in Pos : FailedAt(j, InitSites)) =>
        exit_status = 1

\* C10: once a command of the toggle loop (the qdisc creation, an apply or
\* a reset command) has failed, no further toggle command is issued and no
\* further duration is slept; when the process has exited, teardown() has
\* run after the failure and the exit status is 5.
C10_ToggleFailureAbortsLoop ==
    \A j \in Pos :
        FailedAt(j, ToggleSites) =>
            /\ \A m \in Pos :
                  m > j => ~IsCmd(m, ToggleSites) /\ ~IsSleep(m)
            /\ Len(toggle) + Len(Sleeps) = Len(args.toggle)
            /\ Exited =>
                  /\ exit_status = 5
                  /\ \E m \in TeardownCalls :
                        /\ m > j
                        /\ \E n \in Pos : n > m /\ IsCmd(n, {"td_root_del"})

\* C10 witness: a reset command failed with durations still to sleep, and
\* the process has exited
C10_Witness ==
    /\ Exited
    /\ toggle # <<>>
    /\ \E j \in Pos : FailedAt(j, {"reset"})
    /\ exit_status = 5

\* the commands issued so far at one of `sites`, in order
CmdsAt(sites) == SelectSeq(trace, LAMBDA e : e.ev = "cmd" /\ e.site \in sites)

\* initialize() has returned
Initialized == pc = "init_signals" \/ handlers # {}

\* C15: without root privilege the process exits with status 1 having
\* issued no command, installed no signal handler and called no teardown():
\* nothing but the delivery of a signal before the check is on its trace.
C15_NoPrivilegeExits1 ==
    euid # 0 =>
        /\ pc \in {"main", "exited"}
        /\ \A j \in Pos : trace[j].ev = "signal"
        /\ handlers = {}
        /\ self = <<>>
        /\ (Exited /\ signals = 0) => (exit_status = 1 /\ trace = <<>>)

\* C15 witness: a run without privilege has exited
C15_Witness ==
    /\ euid # 0
    /\ Exited
    /\ signals = 0
    /\ exit_status = 1

\* C16: with an empty include list the include selectors are 'src=0/0' and
\* 'src=::/0', and initialize() attaches exactly one IPv4 include filter,
\* 'match ip src 0/0 ', and one IPv6 include filter, 'match ip6 src ::/0 ';
\* a non-empty include list is used as given, its filters being those of
\* its own selectors.
C16_DefaultInclude ==
    LET nic == IF args.inbound THEN "ifb1" ELSE NIC
        v4 == CmdsAt({"include"})
        v6 == CmdsAt({"include_ipv6"})
        own == _generate_filters(args.include)
        any4 == "tc filter add dev " \o nic
                  \o " protocol ip parent 1:0 prio 3 u32 match ip src 0/0 flowid 1:3"
        any6 == "tc filter add dev " \o nic
                  \o " protocol ipv6 parent 1:0 prio 4 u32 match ip6 src ::/0 flowid 1:3"
    IN  /\ (args.include = <<>> /\ "include" \in DOMAIN self) =>
              self.include = <<Sel_src_any, Sel_src_any6>>
        /\ (args.include # <<>> /\ "include" \in DOMAIN self) =>
              self.include = args.include
        /\ args.include = <<>> =>
              /\ Len(v4) <= 1 /\ Len(v6) <= 1
              /\ \A i \in 1..Len(v4) : v4[i].text = any4
              /\ \A i \in 1..Len(v6) : v6[i].text = any6
              /\ Initialized => (Len(v4) = 1 /\ Len(v6) = 1)
        /\ args.include # <<>> =>
              /\ Len(v4) <= Len(own.v4) /\ Len(v6) <= Len(own.v6)
              /\ \A i \in 1..Len(v4) :
                    /\ v4[i].text # any4
                    /\ v4[i].text = "tc filter add dev " \o nic
                           \o " protocol ip parent 1:0 prio 3 u32 "
                           \o own.v4[i] \o "flowid 1:3"
              /\ \A i \in 1..Len(v6) :
                    /\ v6[i].text # any6
                    /\ v6[i].text = "tc filter add dev " \o nic
                           \o " protocol ipv6 parent 1:0 prio 4 u32 "
                           \o own.v6[i] \o "flowid 1:3"
              /\ Initialized => (Len(v4) = Len(own.v4) /\ Len(v6) = Len(own.v6))

\* C16 witness: initialize() has returned in a run given no include list
C16_Witness ==
    /\ args.include = <<>>
    /\ Initialized
    /\ Len(CmdsAt({"include"})) = 1
    /\ Len(CmdsAt({"include_ipv6"})) = 1

\* no duration of the schedule is negative
NonNegative == \A i \in 1..Len(args.toggle) : args.toggle[i] >= 0

\* C17: a run of a schedule of non-negative durations, started with root
\* privilege, in which no command fails and no signal is delivered, ends:
\* it has then held every phase of its schedule, has called teardown()
\* once, the commands of teardown() being the last thing it did, and its
\* exit status is 0.
C17_RunTerminatesWithStatus0 ==
    (euid = 0 /\ NonNegative) =>
        <>( /\ Exited
            /\ exit_status = 0
            /\ ScheduleDone
            /\ \A i \in 1..Len(Sleeps) : Sleeps[i].secs = args.toggle[i]
            /\ Cardinality(TeardownCalls) = 1
            /\ \A t \in TeardownCalls :
                  /\ \A j \in Pos : j < t => ~IsCmd(j, TeardownSites)
                  /\ \A j \in Pos : j > t => IsCmd(j, TeardownSites)
                  /\ IsCmd(Len(trace), {"td_root_del"}) )

\* C17 witness: a run of a schedule of three durations or more has ended
\* undisturbed
C17_Witness ==
    /\ Exited
    /\ Undisturbed
    /\ euid = 0
    /\ Len(args.toggle) >= 3
    /\ ScheduleDone
    /\ exit_status = 0

\* the devices the commands issued at `sites` name
DevicesAt(sites) ==
    UNION { {e.dev[i] : i \in 1..Len(e.dev)} :
            e \in {trace[j] : j \in {m \in Pos : IsCmd(m, sites)}} }

\* C18 (as claimed): once teardown() of an inbound run has issued its
\* commands, the device teardown() brought down is the device initialize()
\* brought up: no device brought up is left up, and no device is brought
\* down that initialize() did not name.
C18_TeardownReversesSetupDevices ==
    (args.inbound /\ pc \in {"teardown_done", "exited"}
       /\ \E j \in Pos : IsCmd(j, {"td_root_del"})) =>
        /\ DevicesAt({"ifb_up"}) \subseteq DevicesAt({"td_ifb_down"})
        /\ DevicesAt({"td_ifb_down"}) \subseteq DevicesAt(InitSites)

\* C19 (as claimed): 'tc qdisc add ... handle 30:' is issued at most once
\* in a run, before the first phase, and every phase after the first is
\* entered by exactly one command, a 'tc qdisc change'.
C19_QdiscAddedOnce ==
    /\ Len(CmdsAt({"qdisc_add"})) <= 1
    /\ \A j \in Pos :
          IsCmd(j, {"qdisc_add"}) => \A m \in Pos : m < j => ~IsSleep(m)
    /\ \A j \in Pos :
          (IsSleep(j) /\ \E m \in Pos : m < j /\ IsSleep(m)) =>
              /\ IsCmd(j - 1, {"apply", "reset"})
              /\ IsSleep(j - 2)

\* C20: every exclude filter is attached at priority 1 (IPv4) or 2 (IPv6)
\* and every include filter at priority 3 (IPv4) or 4 (IPv6), so each
\* exclude filter has a strictly lower priority number than each include
\* filter and the two families of a kind differ, while every include
\* filter is attached before every exclude filter.
C20_ExcludePriorityBelowInclude ==
    \A includes \in {{m \in Pos : IsCmd(m, {"include", "include_ipv6"})}} :
        \A j \in Pos :
            trace[j].ev = "cmd" =>
                /\ trace[j].site = "exclude" => trace[j].prio = 1
                /\ trace[j].site = "exclude_ipv6" => trace[j].prio = 2
                /\ trace[j].site = "include" => trace[j].prio = 3
                /\ trace[j].site = "include_ipv6" => trace[j].prio = 4
                /\ trace[j].site \in {"exclude", "exclude_ipv6"} =>
                      \A m \in includes : /\ trace[j].prio < trace[m].prio
                                           /\ m < j

\* C20 witness: initialize() has attached include and exclude filters of
\* both families
C20_Witness ==
    /\ Initialized
    /\ CmdsAt({"include"}) # <<>>
    /\ CmdsAt({"include_ipv6"}) # <<>>
    /\ CmdsAt({"exclude"}) # <<>>
    /\ CmdsAt({"exclude_ipv6"}) # <<>>

\* the classes of a prio discipline created with handle 1: and no 'bands'
\* argument: the kernel gives it three bands
prio_classes == {"1:1", "1:2", "1:3"}

\* C21: every include classifier sends its traffic to class 1:3, which is
\* the parent of every command on the impairing discipline (add, apply and
\* reset, in the netem and in the rate mode); every exclude classifier
\* sends its traffic to class 1:2, which is the parent of no such command;
\* both are classes of the root prio discipline, which initialize() has
\* created with handle 1: and three bands before the first classifier.
C21_IncludeClassIsImpairedClass ==
    \A roots \in {{m \in Pos : IsCmd(m, {"root_add"})}} :
        \A j \in Pos :
            trace[j].ev = "cmd" =>
                /\ trace[j].site \in {"include", "include_ipv6"} =>
                      trace[j].flowid = "1:3"
                /\ trace[j].site \in {"exclude", "exclude_ipv6"} =>
                      trace[j].flowid = "1:2"
                /\ trace[j].site \in ToggleSites => trace[j].parent = "1:3"
                /\ trace[j].site = "root_add" =>
                      trace[j].text = "tc qdisc add dev " \o trace[j].dev[1]
                                        \o " root handle 1: prio"
                /\ trace[j].site \in {"include", "include_ipv6",
                                       "exclude", "exclude_ipv6"} =>
                      /\ trace[j].flowid \in prio_classes
                      /\ trace[j].parent = "1:0"
                      /\ \E m \in roots : m < j

\* C21 witness: a run in the rate mode has attached an include and an
\* exclude classifier and has applied and reset the discipline
C21_Witness ==
    /\ args.subparser_name = "rate"
    /\ CmdsAt({"include"}) # <<>>
    /\ CmdsAt({"exclude_ipv6"}) # <<>>
    /\ CmdsAt({"apply"}) # <<>>
    /\ CmdsAt({"reset"}) # <<>>

\* the place of a site in the step order of initialize(), the commands of
\* the toggle loop coming after all of them
InitStage(site) ==
    CASE site = "modprobe" -> 1
      [] site = "ifb_up" -> 2
      [] site = "ingress_del" -> 3
      [] site = "ingress_replace" -> 4
      [] site = "redirect" -> 5
      [] site = "root_del" -> 6
      [] site = "root_add" -> 7
      [] site \in {"include", "include_ipv6"} -> 8
      [] site \in {"exclude", "exclude_ipv6"} -> 9
      [] OTHER -> 10

\* the commands issued so far by initialize() and by the toggle loop
SetupCmds ==
    SelectSeq(trace, LAMBDA e : e.ev = "cmd" /\ e.site \notin TeardownSites)

\* C22: initialize() issues its commands in the step order: an inbound run
\* starts with modprobe, the virtual device up, the ingress delete, the
\* ingress qdisc and the redirect filter, one after the other; every run
\* then deletes the root qdisc, creates the root prio qdisc, attaches the
\* include filters and then the exclude filters. No filter is attached
\* unless the root prio qdisc was created before it, and no command on the
\* impairing discipline (handle 30:) is issued before initialize() has
\* issued all its commands without a failure: when the first such command
\* is issued, the commands before it are those of initialize(), all of
\* them.
C22_InitializeStepOrder ==
    /\ \A stages \in {[i \in 1..Len(sc) |-> InitStage(sc[i].site)] :
                        sc \in {SetupCmds}} :
          /\ stages # <<>> => stages[1] = (IF args.inbound THEN 1 ELSE 6)
          /\ \A i \in 1..(Len(stages) - 1) :
                IF stages[i] < 7 THEN stages[i + 1] = stages[i] + 1
                ELSE stages[i + 1] >= stages[i] /\ stages[i + 1] > 7
    /\ \A created \in {{m \in Pos : /\ IsCmd(m, {"root_add"})
                                       /\ m < Len(trace)
                                       /\ trace[m + 1].ev # "failed"}} :
          \A j \in Pos :
              IsCmd(j, {"include", "include_ipv6", "exclude", "exclude_ipv6"}) =>
                  \E m \in created : m < j
    /\ (trace # <<>> /\ IsCmd(Len(trace), {"qdisc_add"})) =>
          \/ \E m \in 1..(Len(trace) - 1) : IsCmd(m, ToggleSites)
          \/ SubSeq(trace, 1, Len(trace) - 1) =
                 initialize_commands(self,
                     effective_include(args.include), args.exclude)

\* C22 witness: an inbound run with include and exclude filters has gone
\* through initialize() and has issued its first command on the impairing
\* discipline
C22_Witness ==
    /\ args.inbound
    /\ CmdsAt({"redirect"}) # <<>>
    /\ CmdsAt({"include"}) # <<>>
    /\ CmdsAt({"exclude"}) # <<>>
    /\ CmdsAt({"qdisc_add"}) # <<>>

\* a 'tc filter ... protocol <p>' sees the packets of a family when p is
\* the family's protocol or 'all'
Classifies(protocol, family) == protocol \in {family, "all"}

\* C24 (as claimed): once an inbound run has attached its redirect filter
\* to the ingress of the real device, the filter redirects the ingress
\* packets of every protocol to the virtual device: IPv6 packets as well
\* as IPv4 packets.
C24_RedirectsAllIngress ==
    \A j \in Pos :
        IsCmd(j, {"redirect"}) =>
            \A family \in {"ip", "ipv6"} :
                \E m \in Pos : /\ IsCmd(m, {"redirect"})
                               /\ Classifies(trace[m].protocol, family)

\* C25 (as claimed): under any timing of SIGINT/SIGTERM, teardown() is
\* started at most once in a run and its commands are issued at most once:
\* a signal delivered while main's own teardown() is executing does not
\* issue them a second time, and a run whose schedule had completed and
\* whose main() had called teardown() does not exit with status 5.
C25_TeardownStartedAtMostOnce ==
    /\ Cardinality(TeardownCalls) <= 1
    /\ Len(CmdsAt({"td_root_del"})) <= 1
    /\ (Exited /\ \E j \in TeardownCalls : trace[j].site = "main") =>
           exit_status # 5

\* C26 (as claimed): a run on which no signal was delivered and that has
\* issued at least one provisioning command has called teardown() and
\* issued teardown's 'tc qdisc del root' when the process ends, for every
\* schedule the command line accepts, a negative duration included.
C26_ProvisionedRunEndsWithTeardown ==
    (Exited /\ signals = 0 /\ \E j \in Pos : IsCmd(j, InitSites)) =>
        /\ TeardownCalls # {}
        /\ \E j \in Pos : IsCmd(j, {"td_root_del"})

\* C27: in every variant and whenever a signal is delivered, once
\* teardown() has issued 'tc qdisc del root' on the effective device, no
\* command on the impairing discipline (add, apply or reset of handle 30:)
\* is issued after it; in the package, the reset that follows the yield of
\* emulate()/rate() does not run after the teardown() of a signal taken
\* inside `with mng()`.
C27_NoImpairCommandAfterTeardown ==
    \A j \in Pos :
        IsCmd(j, {"td_root_del"}) =>
            \A m \in (j + 1)..Len(trace) : ~IsCmd(m, ToggleSites)

\* C27 witness: in the package, a signal was taken during the sleep of an
\* enabled phase, teardown() has issued its 'tc qdisc del root' and the
\* process has ended
C27_Witness ==
    /\ variant = "package"
    /\ Exited
    /\ \E j \in Pos : /\ trace[j].ev = "signal"
                      /\ trace[j].site = "signal_action"
                      /\ trace[j].text = "sleep_enabled"
                      /\ \E m \in (j + 1)..Len(trace) : IsCmd(m, {"td_root_del"})

\* the sites whose commands name an ingress qdisc, the ffff: parent or an
\* ifb device
IngressSites ==
    {"modprobe", "ifb_up", "ingress_del", "ingress_replace", "redirect",
     "td_filter_del", "td_ingress_del", "td_ifb_down"}
\* the sites of the root-qdisc, classifier and impairing-discipline commands
RootSites ==
    {"root_del", "root_add", "include", "include_ipv6", "exclude",
     "exclude_ipv6", "td_root_del"} \cup ToggleSites

\* C28: the commands of a run touch only the devices of its mode. When not
\* inbound, no command of initialize(), of the toggle loop or of teardown()
\* is an ingress, ffff: or ifb command, and every command names the NIC
\* alone. When inbound, every root-qdisc, classifier (parent 1:0) and
\* impairing-discipline (handle 30:) command names the virtual device ifb1
\* and not the real NIC, so no command changes the root queueing
\* configuration of the real NIC.
C28_CommandsTouchOnlyModeDevices ==
    \A j \in Pos :
        trace[j].ev = "cmd" =>
            /\ ~args.inbound =>
                  /\ trace[j].site \notin IngressSites
                  /\ trace[j].parent # "ffff:"
                  /\ trace[j].dev = <<NIC>>
            /\ (args.inbound /\ trace[j].site \in RootSites) =>
                  /\ trace[j].dev = <<"ifb1">>
                  /\ trace[j].parent \in {"", "1:0", "1:3"}
            /\ trace[j].site = "root_del" =>
                  trace[j].text = "tc qdisc del root dev "
                                    \o (IF args.inbound THEN "ifb1" ELSE NIC)
            /\ trace[j].site = "td_root_del" =>
                  trace[j].text = "tc qdisc del root dev "
                                    \o (IF args.inbound THEN "ifb1" ELSE NIC)

\* C28 witness: an inbound run has gone through initialize(), has applied
\* and reset the impairment, and teardown() has issued its last command
C28_Witness ==
    /\ args.inbound
    /\ CmdsAt({"redirect"}) # <<>>
    /\ CmdsAt({"exclude"}) # <<>>
    /\ CmdsAt({"reset"}) # <<>>
    /\ CmdsAt({"td_root_del"}) # <<>>

----------------------------------------------------------------------------
(* Properties of the class called directly (checked under SpecApi) *)

CallPos == 1..Len(calls)
IsCall(i, op) == i \in CallPos /\ calls[i].op = op
\* the instance had its attributes when call number i was made
Assigned(i) == "inbound" \in calls[i].attrs
\* the texts of the commands call number i issued, in order
IssuedTexts(i) == [j \in 1..Len(calls[i].issued) |-> calls[i].issued[j].text]
\* the texts of a list of commands
Texts(cmds) == [j \in 1..Len(cmds) |-> cmds[j].text]
\* the commands of call number i that exited with a non-zero status
FailedIn(i) == {j \in 1..Len(calls[i].issued) : ~calls[i].issued[j].ok}
\* the commands initialize() issues when none fails
AllInitializeCommands ==
    initialize_commands(self, effective_include(args.include), args.exclude)

\* C11: a call of teardown() on an instance that has its attributes issues
\* every one of its commands and returns normally, whichever of them exit
\* with a non-zero status; of two calls in succession neither raises, and
\* the second issues the same commands as the first.
C11_TeardownNeverFailsItsCaller ==
    /\ \A i \in CallPos :
          (IsCall(i, "teardown") /\ Assigned(i)) =>
              /\ calls[i].result = "returned"
              /\ IssuedTexts(i) = Texts(teardown_commands(self))
              /\ calls[i].faults \subseteq FailedIn(i)
    /\ (IsCall(1, "teardown") /\ IsCall(2, "teardown") /\ Assigned(1)) =>
          /\ calls[1].result = "returned"
          /\ calls[2].result = "returned"
          /\ IssuedTexts(2) = IssuedTexts(1)

\* C11 witness: set up for inbound traffic, then two calls of teardown():
\* in the first the real device's deletes succeed, in the second every
\* delete fails, nothing being left to delete
C11_Witness ==
    /\ IsCall(1, "teardown") /\ IsCall(2, "teardown")
    /\ calls[2].nth = 3
    /\ Assigned(1)
    /\ args.inbound
    /\ {1, 2, 4} \cap FailedIn(1) = {}
    /\ FailedIn(2) = {1, 2, 4}
    /\ calls[2].result = "returned"

\* C12 (as claimed): a call of teardown() made before any call of
\* initialize(), or right after a call of initialize() that failed,
\* returns without raising, in every implementation.
C12_TeardownSafeWithoutSetup ==
    \A i \in CallPos :
        (/\ IsCall(i, "teardown")
         /\ \/ calls[i].nth = 1
            \/ i > 1 /\ IsCall(i - 1, "initialize")
                     /\ calls[i - 1].result = "raised")
        => calls[i].result = "returned"

\* C13: in a call of initialize(), the failure of 'tc qdisc del dev <real>
\* ingress' or of 'tc qdisc del root dev <nic>' does not end the call: the
\* call issues every command of initialize() and returns when no other
\* command fails, and raises at the first other command that fails,
\* issuing nothing after it.
C13_BestEffortDeletes ==
    \A i \in CallPos :
        IsCall(i, "initialize") =>
            LET must_failed == {j \in FailedIn(i) : calls[i].issued[j].must}
                best_effort == {j \in 1..Len(calls[i].issued) :
                                   calls[i].issued[j].site
                                       \in {"ingress_del", "root_del"}}
            IN  /\ \A j \in 1..Len(calls[i].issued) :
                      calls[i].issued[j].must <=> j \notin best_effort
                /\ must_failed = {} =>
                      /\ calls[i].result = "returned"
                      /\ IssuedTexts(i) = Texts(AllInitializeCommands)
                /\ must_failed # {} =>
                      /\ calls[i].result = "raised"
                      /\ must_failed = {Len(calls[i].issued)}

\* C13 witness: on a kernel with nothing to delete, an inbound
\* initialize() whose two deletes failed has returned
C13_Witness ==
    /\ IsCall(1, "initialize")
    /\ calls[1].nth = 1
    /\ args.inbound
    /\ calls[1].faults = {}
    /\ FailedIn(1) = {3, 6}
    /\ calls[1].result = "returned"
    /\ Len(calls[1].issued) = Len(AllInitializeCommands)

\* C14: a call of initialize() that follows a successful call of
\* initialize(), no command failing for a reason outside the kernel's
\* traffic-control state, succeeds and leaves the devices, qdiscs and
\* filters as the first call left them.
C14_InitializeIdempotent ==
    [][(/\ calls # <<>>
        /\ calls[Len(calls)].op = "initialize"
        /\ calls[Len(calls)].result = "returned"
        /\ calls' # calls
        /\ calls'[Len(calls')].op = "initialize"
        /\ calls'[Len(calls')].faults = {})
       => /\ calls'[Len(calls')].result = "returned"
          /\ kernel' = kernel]_vars

\* C14 witness: two successful calls of initialize() in succession for
\* inbound traffic, the second of which deleted what the first had set up
C14_Witness ==
    /\ IsCall(1, "initialize") /\ IsCall(2, "initialize")
    /\ calls[1].result = "returned"
    /\ calls[2].result = "returned"
    /\ calls[1].faults = {} /\ calls[2].faults = {}
    /\ args.inbound
    /\ FailedIn(2) = {}
    /\ root_qdisc("ifb1") \in kernel.qdiscs
    /\ ingress_qdisc(NIC) \in kernel.qdiscs
    /\ Len(kernel.filters) = Len(AllInitializeCommands) - 6

====
